---- MODULE Spec2Model ----
(***************************************************************************)
(* EEPostureController (src/perls2/controllers/ee_posture.py): an          *)
(* end-effector impedance controller with a joint posture held in the      *)
(* null space of the task.  The state is the controller's attributes, the  *)
(* robot model's current readings and the two optional interpolators; the  *)
(* operations are set_goal and run_controller; each reads the readings the *)
(* state provider holds when it is called.                                 *)
(*                                                                         *)
(* Vectors are sequences of integers, matrices sequences of rows.  Python's*)
(* None is the empty sequence.  The base class EEImpController, the math   *)
(* kernel (control_utils) and the interpolators are not in the sources;    *)
(* they are modelled from their description in the specification.          *)
(***************************************************************************)
EXTENDS Integers, Sequences, FiniteSets, TLC

VARIABLES
    uncoupling,               \* self.uncoupling (uncouple_pos_ori)
    posture_gain,             \* self.posture_gain
    interpolator_pos,         \* self.interpolator_pos and its progress
    interpolator_ori,         \* self.interpolator_ori and its progress
    goal_pos,                 \* self.goal_pos
    goal_ori,                 \* self.goal_ori
    ori_ref,                  \* self.ori_ref
    relative_ori,             \* self.relative_ori
    ori_interpolate_started,  \* self.ori_interpolate_started
    goal_set,                 \* whether set_goal was ever called
    model,                    \* self.model: the readings the last operation saw
    torques,                  \* self.torques
    returned,                 \* what the last run_controller call returned
    outcome,                  \* how the last run_controller call ended
    locals                    \* the local variables of the cycle just run

vars == <<uncoupling, posture_gain, interpolator_pos, interpolator_ori,
          goal_pos, goal_ori, ori_ref, relative_ori, ori_interpolate_started,
          goal_set, model, torques, returned, outcome, locals>>

\* Bound on the progress of an interpolator: the number of times
\* get_interpolated_goal is called on it between two calls of set_goal.
MaxSteps == 2

----------------------------------------------------------------------------
(* numpy on integer vectors and matrices *)

None == <<>>

\* A function on 1..n as the tuple of its values.
Tup(f, n) == SubSeq(f, 1, n)

Zeros(n) == Tup([i \in 1..n |-> 0], n)

VAdd(a, b) == Tup([i \in 1..Len(a) |-> a[i] + b[i]], Len(a))

VSub(a, b) == Tup([i \in 1..Len(a) |-> a[i] - b[i]], Len(a))

\* np.multiply: the elementwise product
VMul(a, b) == Tup([i \in 1..Len(a) |-> a[i] * b[i]], Len(a))

Scale(k, a) == Tup([i \in 1..Len(a) |-> k * a[i]], Len(a))

RECURSIVE DotTo(_, _, _)
DotTo(a, b, n) == IF n = 0 THEN 0 ELSE a[n] * b[n] + DotTo(a, b, n - 1)

\* The inner product of two vectors.
Dot(a, b) == DotTo(a, b, Len(a))

\* np.dot(A, x)
MatVec(A, x) == Tup([i \in 1..Len(A) |-> Dot(A[i], x)], Len(A))

RECURSIVE ColDotTo(_, _, _, _)
ColDotTo(A, j, x, n) == IF n = 0 THEN 0 ELSE A[n][j] * x[n] + ColDotTo(A, j, x, n - 1)

\* np.dot(A.T, x)
TransposeVec(A, x) == Tup([j \in 1..Len(A[1]) |-> ColDotTo(A, j, x, Len(A))], Len(A[1]))

Col(A, j) == Tup([i \in 1..Len(A) |-> A[i][j]], Len(A))

Transpose(A) == Tup([j \in 1..Len(A[1]) |-> Col(A, j)], Len(A[1]))

MatMul(A, B) ==
    Tup([i \in 1..Len(A) |-> Tup([j \in 1..Len(B[1]) |-> Dot(A[i], Col(B, j))], Len(B[1]))],
        Len(A))

Cross(a, b) == << a[2] * b[3] - a[3] * b[2],
                  a[3] * b[1] - a[1] * b[3],
                  a[1] * b[2] - a[2] * b[1] >>

\* v[a:b] of Python (0-based, b excluded)
Slice(v, a, b) == SubSeq(v, a + 1, b)

\* v[a:] of Python
SliceFrom(v, a) == SubSeq(v, a + 1, Len(v))

\* np.concatenate([a, b])
Concatenate(a, b) == a \o b

ScalarMatrix(k, n) ==
    Tup([i \in 1..n |-> Tup([j \in 1..n |-> IF i = j THEN k ELSE 0], n)], n)

Identity(n) == ScalarMatrix(1, n)

ISqrt(n) == CHOOSE r \in 0..n : r * r = n

----------------------------------------------------------------------------
(* The math kernel (perls2.controllers.utils.control_utils) *)

SubMatrix(A, r, c, n) ==
    Tup([i \in 1..n |-> Tup([j \in 1..n |-> A[r + i - 1][c + j - 1]], n)], n)

\* The mass matrix [[a*I3, b*I3, 0], [b*I3, c*I3, 0], [0, 0, m]] of 7 joints.
MassMatrix(a, b, c, m) ==
    Tup([i \in 1..7 |-> Tup([j \in 1..7 |->
        IF i = 7 \/ j = 7 THEN (IF i = j THEN m ELSE 0)
        ELSE IF i = j THEN (IF i <= 3 THEN a ELSE c)
        ELSE IF i = j + 3 \/ j = i + 3 THEN b
        ELSE 0], 7)], 7)

\* The full task Jacobian [I6 | 0] (6 x 7): J_pos its rows 1-3, J_ori its rows 4-6.
JacobianFull == Tup([i \in 1..6 |-> Tup([j \in 1..7 |-> IF i = j THEN 1 ELSE 0], 7)], 6)

\* diag(0, 0, 0, 0, 0, 0, 1): the projector on the null space of JacobianFull.
LastJointProjector ==
    Tup([i \in 1..7 |-> Tup([j \in 1..7 |-> IF i = 7 /\ j = 7 THEN 1 ELSE 0], 7)], 7)

\* opspace_matrices raises on a null mass matrix or Jacobian.
OpspaceRaises(mass_matrix, J_full, J_pos, J_ori) ==
    mass_matrix = None \/ J_full = None \/ J_pos = None \/ J_ori = None

\* opspace_matrices: Lambda = (J M^-1 J^T)^-1 for J_full, J_pos, J_ori and
\* N = I - J_full^T Lambda_full J_full M^-1, in closed form for the readings
\* of this model (J_full = JacobianFull, M = MassMatrix(a, b, c, m)):
\*   M^-1 = [[c, -b], [-b, a]] / (ac - bb) on the task block, so
\*   Lambda_full = the task block of M, Lambda_pos = (ac - bb)/c * I3,
\*   Lambda_ori = (ac - bb)/a * I3 and N = diag(0, 0, 0, 0, 0, 0, 1).
opspace_matrices(mass_matrix, J_full, J_pos, J_ori) ==
    LET a == mass_matrix[1][1]
        b == mass_matrix[1][4]
        c == mass_matrix[4][4]
        det == a * c - b * b
    IN  [lambda_full |-> SubMatrix(mass_matrix, 1, 1, 6),
         lambda_pos |-> ScalarMatrix(det \div c, 3),
         lambda_ori |-> ScalarMatrix(det \div a, 3),
         nullspace_matrix |-> LastJointProjector]

\* nullspace_torques raises on a null reading or on vectors of different shape.
NullspaceRaises(mass_matrix, nullspace_matrix, initial_joint, joint_pos, joint_vel) ==
    \/ mass_matrix = None
    \/ joint_pos = None
    \/ joint_vel = None
    \/ Len(initial_joint) # Len(joint_pos)
    \/ Len(joint_vel) # Len(joint_pos)

\* nullspace_torques: a critically damped joint PD law towards initial_joint,
\* weighted by the mass matrix and projected through the null-space matrix.
nullspace_torques(mass_matrix, nullspace_matrix, initial_joint, joint_pos, joint_vel, joint_kp) ==
    LET joint_kv == ISqrt(joint_kp) * 2
        pose_torques ==
            MatVec(mass_matrix,
                   VSub(Scale(joint_kp, VSub(initial_joint, joint_pos)),
                        Scale(joint_kv, joint_vel)))
    IN  TransposeVec(nullspace_matrix, pose_torques)

\* orientation_error raises on a null rotation matrix.
OrientationErrorRaises(desired, current) == desired = None \/ current = None

\* orientation_error(desired, current): half the sum of the cross products of
\* the matching columns of current and desired; zero for equal rotations and
\* antisymmetric under a swap of its arguments.
orientation_error(desired, current) ==
    LET s == VAdd(VAdd(Cross(Col(current, 1), Col(desired, 1)),
                       Cross(Col(current, 2), Col(desired, 2))),
                  Cross(Col(current, 3), Col(desired, 3)))
    IN  Tup([i \in 1..3 |-> s[i] \div 2], 3)

----------------------------------------------------------------------------
(* The values the model draws its readings, goals and results from *)

\* Rotations about the z axis by quarter turns.
RotZ90 == << <<0, -1, 0>>, <<1, 0, 0>>, <<0, 0, 1>> >>

RotZ270 == << <<0, 1, 0>>, <<-1, 0, 0>>, <<0, 0, 1>> >>

Reading(ee_pos, ee_ori_mat, ee_pos_vel, ee_ori_vel, mass_matrix, joint_pos, joint_vel, torque_compensation) ==
    [ee_pos |-> ee_pos, ee_ori_mat |-> ee_ori_mat,
     ee_pos_vel |-> ee_pos_vel, ee_ori_vel |-> ee_ori_vel,
     mass_matrix |-> mass_matrix,
     J_full |-> JacobianFull,
     J_pos |-> SubSeq(JacobianFull, 1, 3),
     J_ori |-> SubSeq(JacobianFull, 4, 6),
     joint_pos |-> joint_pos, joint_vel |-> joint_vel,
     torque_compensation |-> torque_compensation]

\* Moving, turned a quarter about z, position and orientation coupled.
ReadingMoving ==
    Reading(<<1, 0, -1>>, RotZ90, <<1, 0, 0>>, <<0, 0, 1>>,
            MassMatrix(4, 2, 4, 1),
            <<0, -1, 0, 2, 0, 1, 1>>, <<0, 0, 0, 0, 0, 0, 1>>,
            <<0, 1, 0, -1, 0, 2, 3>>)

\* At rest away from the origin, decoupled non-identity dynamics.
ReadingHeld ==
    Reading(<<1, 0, -1>>, Identity(3), <<0, 0, 0>>, <<0, 0, 0>>,
            MassMatrix(2, 0, 3, 2),
            <<1, -1, 0, 2, 0, 1, 5>>, <<0, 0, 0, 0, 0, 0, 0>>,
            <<2, 0, 1, 0, -1, 0, 4>>)

\* Null (absent) readings of one field.
NullReadings ==
    { [ReadingMoving EXCEPT !.ee_ori_mat = None],
      [ReadingHeld EXCEPT !.joint_pos = None] }

Readings == {ReadingMoving, ReadingHeld} \cup NullReadings

\* Arguments (delta, set_pos, set_ori) of set_goal: delta is a translation
\* and a rotation vector in quarter turns.
GoalArguments ==
    { << <<0, 0, 0, 0, 0, 0>>, None, None >>,
      << <<0, 0, 0, 0, 0, 0>>, <<2, 1, 0>>, RotZ270 >> }

\* Gains of the constructor: kp, and kv = 2 * sqrt(kp) * damping with damping 1.
kp == <<1, 1, 1, 4, 4, 4>>

kv == Tup([i \in 1..6 |-> 2 * ISqrt(kp[i])], 6)

\* The posture of the constructor (its default, rounded).
goal_posture == <<0, -1, 0, 2, 0, 1, 3>>

PostureGains == {0, 4}

\* Orders of an interpolator: 1 is value only, 4 is value, velocity, acceleration.
InterpolatorOrders == {1, 4}

----------------------------------------------------------------------------
(* The interpolators (external): get_interpolated_goal returns a value, or
   value, velocity and acceleration concatenated when the order is 4 *)

NoInterpolator == [attached |-> FALSE, order |-> 0, goal |-> None, step |-> 0]

NewInterpolator(order) == [attached |-> TRUE, order |-> order, goal |-> None, step |-> 0]

Interpolators == {NoInterpolator} \cup {NewInterpolator(o) : o \in InterpolatorOrders}

InterpolatorResult(order, value, velocity, acceleration) ==
    IF order = 4 THEN value \o velocity \o acceleration ELSE value

\* The result of an interpolator that returns its static goal with zero
\* velocity and acceleration.
StaticResult(interp) ==
    InterpolatorResult(interp.order, interp.goal, <<0, 0, 0>>, <<0, 0, 0>>)

\* A result on the way to the goal.
RampResult(interp) ==
    InterpolatorResult(interp.order, <<1, 2, -1>>, <<1, 0, 2>>, <<0, 1, 1>>)

\* What get_interpolated_goal may return.
InterpolatorResults(interp) ==
    IF ~interp.attached THEN {None}
    ELSE {RampResult(interp)} \cup (IF interp.goal = None THEN {} ELSE {StaticResult(interp)})

\* interpolator.set_goal(goal): a new goal restarts the interpolation.
WithGoal(interp, g) ==
    IF interp.attached THEN [interp EXCEPT !.goal = g, !.step = 0] ELSE interp

----------------------------------------------------------------------------
(* run_controller, step by step *)

\* DesiredPosition with the velocity and acceleration slices exchanged.
DesiredPositionSwapped(interp, interpolated_results, gpos) ==
    IF interp.attached
    THEN IF interp.order = 4
         THEN [pos |-> Slice(interpolated_results, 0, 3),
               vel |-> SliceFrom(interpolated_results, 6),
               acc |-> Slice(interpolated_results, 3, 6)]
         ELSE [pos |-> interpolated_results, vel |-> Zeros(3), acc |-> Zeros(3)]
    ELSE [pos |-> gpos, vel |-> Zeros(3), acc |-> Zeros(3)]

\* Lines 90-104: the desired position, velocity and acceleration.  The
\* scalar 0.0 of lines 90-91 is the zero vector it broadcasts to.
DesiredPosition(interp, interpolated_results, gpos) ==
    IF interp.attached
    THEN IF interp.order = 4
         THEN [pos |-> Slice(interpolated_results, 0, 3),
               vel |-> Slice(interpolated_results, 3, 6),
               acc |-> SliceFrom(interpolated_results, 6)]
         ELSE [pos |-> interpolated_results, vel |-> Zeros(3), acc |-> Zeros(3)]
    ELSE [pos |-> gpos, vel |-> Zeros(3), acc |-> Zeros(3)]

\* Lines 108 and 120: the call of orientation_error that can raise.
OrientationRaises(interp, gori, ee_ori_mat, ref) ==
    IF interp.attached
    THEN OrientationErrorRaises(ee_ori_mat, ref)
    ELSE OrientationErrorRaises(gori, ee_ori_mat)

\* Lines 92-93 and 106-120: the orientation error and the desired angular
\* velocity and acceleration.
DesiredOrientation(interp, interpolated_results, gori, ee_ori_mat) ==
    IF interp.attached
    THEN IF interp.order = 4
         THEN [err |-> Slice(interpolated_results, 0, 3),
               vel |-> Slice(interpolated_results, 3, 6),
               acc |-> SliceFrom(interpolated_results, 6)]
         ELSE [err |-> Slice(interpolated_results, 0, 3), vel |-> Zeros(3), acc |-> Zeros(3)]
    ELSE [err |-> orientation_error(gori, ee_ori_mat), vel |-> Zeros(3), acc |-> Zeros(3)]

\* Line 108: self.relative_ori after the orientation step.
RelativeOriAfter(interp, rel, ee_ori_mat, ref) ==
    IF interp.attached THEN orientation_error(ee_ori_mat, ref) ELSE rel

\* StartedAfter setting the flag in every cycle.
StartedAfterAlways(interp, started) == TRUE

\* Lines 113-116: self.ori_interpolate_started after the orientation step.
StartedAfter(interp, started) ==
    IF interp.attached /\ interp.order = 4 THEN TRUE ELSE started

\* Advance calling get_interpolated_goal on interpolators of order 4 only.
AdvanceOrder4Only(interp) ==
    IF interp.attached /\ interp.order = 4
    THEN [interp EXCEPT !.step = interp.step + 1]
    ELSE interp

\* Lines 97, 102 and 110: an attached interpolator after get_interpolated_goal.
Advance(interp) ==
    IF interp.attached THEN [interp EXCEPT !.step = interp.step + 1] ELSE interp

\* Lines 122-126 and 128-131: the gain-weighted error, the gain-weighted
\* velocity error and the feedforward acceleration.
GainWeighted(error, gain_p, desired_vel, current_vel, gain_v, desired_acc) ==
    VAdd(VAdd(VMul(error, gain_p),
              VMul(VSub(desired_vel, current_vel), gain_v)),
         desired_acc)

\* DecoupledWrench with the two modes exchanged.
DecoupledWrenchSwapped(uncoupled, ops, desired_force, desired_torque) ==
    IF ~uncoupled
    THEN Concatenate(MatVec(ops.lambda_pos, desired_force),
                     MatVec(ops.lambda_ori, desired_torque))
    ELSE MatVec(ops.lambda_full, Concatenate(desired_force, desired_torque))

\* Lines 137-143: the wrench in decoupled or coupled mode.
DecoupledWrench(uncoupled, ops, desired_force, desired_torque) ==
    IF uncoupled
    THEN Concatenate(MatVec(ops.lambda_pos, desired_force),
                     MatVec(ops.lambda_ori, desired_torque))
    ELSE MatVec(ops.lambda_full, Concatenate(desired_force, desired_torque))

\* TaskTorques without the compensation.
TaskTorquesUncompensated(J_full, decoupled_wrench, torque_compensation) ==
    TransposeVec(J_full, decoupled_wrench)

\* Line 145: the task torque plus the compensation.
TaskTorques(J_full, decoupled_wrench, torque_compensation) ==
    VAdd(TransposeVec(J_full, decoupled_wrench), torque_compensation)

\* FinalTorques without the posture term.
FinalTorquesWithoutPosture(task_torques, posture_torques) == task_torques

\* Lines 146-151: the null-space posture torque added in place.
FinalTorques(task_torques, posture_torques) == VAdd(task_torques, posture_torques)

\* The local variables of a cycle that has not run.
NoLocals ==
    [failed |-> "none", pos_results |-> None, ori_results |-> None,
     desired_pos |-> None, desired_vel_pos |-> None, desired_acc_pos |-> None,
     ori_error |-> None, desired_vel_ori |-> None, desired_acc_ori |-> None,
     desired_force |-> None, desired_torque |-> None,
     decoupled_wrench |-> None, task_torques |-> None, posture_torques |-> None]

\* Lines 90-104 on the locals l.
PositionStepWith(l, pos_results, dp) ==
    [l EXCEPT !.pos_results = pos_results, !.desired_pos = dp.pos,
              !.desired_vel_pos = dp.vel, !.desired_acc_pos = dp.acc]

PositionStep(l, interp, pos_results) ==
    PositionStepWith(l, pos_results, DesiredPosition(interp, pos_results, goal_pos))

\* Lines 106-120 on the locals l, with the readings m.
OrientationStepWith(l, ori_results, do) ==
    [l EXCEPT !.ori_results = ori_results, !.ori_error = do.err,
              !.desired_vel_ori = do.vel, !.desired_acc_ori = do.acc]

OrientationStep(l, m, interp, ori_results) ==
    IF OrientationRaises(interp, goal_ori, m.ee_ori_mat, ori_ref)
    THEN [l EXCEPT !.failed = "orientation_error"]
    ELSE OrientationStepWith(l, ori_results,
             DesiredOrientation(interp, ori_results, goal_ori, m.ee_ori_mat))

\* Lines 122-131 on the locals l; the subtraction of line 122 raises on array(None).
ForceStep(l, m) ==
    IF l.failed # "none" THEN l
    ELSE IF l.desired_pos = None \/ m.ee_pos = None
    THEN [l EXCEPT !.failed = "position_error"]
    ELSE [l EXCEPT
            !.desired_force =
                GainWeighted(VSub(l.desired_pos, m.ee_pos), Slice(kp, 0, 3),
                             l.desired_vel_pos, m.ee_pos_vel, Slice(kv, 0, 3),
                             l.desired_acc_pos),
            !.desired_torque =
                GainWeighted(l.ori_error, Slice(kp, 3, 6),
                             l.desired_vel_ori, m.ee_ori_vel, Slice(kv, 3, 6),
                             l.desired_acc_ori)]

\* Lines 146-151 on the locals l.
PostureStep(l, m, ops) ==
    IF NullspaceRaises(m.mass_matrix, ops.nullspace_matrix, goal_posture,
                       m.joint_pos, m.joint_vel)
    THEN [l EXCEPT !.failed = "nullspace_torques"]
    ELSE [l EXCEPT !.posture_torques =
             nullspace_torques(m.mass_matrix, ops.nullspace_matrix, goal_posture,
                               m.joint_pos, m.joint_vel, posture_gain)]

\* Lines 137-145 on the locals l.
WrenchStepWith(l, m, wrench) ==
    [l EXCEPT !.decoupled_wrench = wrench,
              !.task_torques = TaskTorques(m.J_full, wrench, m.torque_compensation)]

WrenchStep(l, m, ops) ==
    WrenchStepWith(l, m, DecoupledWrench(uncoupling, ops, l.desired_force, l.desired_torque))

\* Lines 133-151 on the locals l.
TorqueSteps(l, m, ops) == PostureStep(WrenchStep(l, m, ops), m, ops)

OpspaceStep(l, m) ==
    IF l.failed # "none" THEN l
    ELSE IF OpspaceRaises(m.mass_matrix, m.J_full, m.J_pos, m.J_ori)
    THEN [l EXCEPT !.failed = "opspace_matrices"]
    ELSE TorqueSteps(l, m, opspace_matrices(m.mass_matrix, m.J_full, m.J_pos, m.J_ori))

\* Lines 88-155: the locals of one cycle with the readings m, given the
\* interpolators and what they return.  failed names the call that raised,
\* "none" when the cycle returns; a local the cycle did not reach is None.
Cycle(m, interp_pos, interp_ori, pos_results, ori_results) ==
    OpspaceStep(
        ForceStep(
            OrientationStep(PositionStep(NoLocals, interp_pos, pos_results),
                            m, interp_ori, ori_results),
            m),
        m)

----------------------------------------------------------------------------
(* The state after construction *)

\* What the constructor leaves as goal: nothing, or the pose read at
\* construction.  run_controller reads these attributes unchecked (line 89).
InitialGoals(reading) ==
    {[pos |-> None, ori |-> None, ref |-> None, set |-> FALSE]}
    \cup (IF reading.ee_ori_mat = None THEN {}
          ELSE {[pos |-> reading.ee_pos, ori |-> reading.ee_ori_mat,
                 ref |-> reading.ee_ori_mat, set |-> TRUE]})

\* Lines 56-81: the constructor calls opspace_matrices and nullspace_torques
\* on the readings it is given; construction fails when either raises.
CompileJitFunctionsRaises(reading) ==
    \/ OpspaceRaises(reading.mass_matrix, reading.J_full, reading.J_pos, reading.J_ori)
    \/ NullspaceRaises(reading.mass_matrix, LastJointProjector, goal_posture,
                       reading.joint_pos, reading.joint_vel)

Init ==
    /\ uncoupling \in BOOLEAN
    /\ posture_gain \in PostureGains
    /\ model \in {reading \in Readings : ~CompileJitFunctionsRaises(reading)}
    /\ \E ip \in Interpolators, io \in Interpolators, g \in InitialGoals(model) :
          /\ goal_pos = g.pos
          /\ goal_ori = g.ori
          /\ ori_ref = g.ref
          /\ interpolator_pos = IF g.set THEN WithGoal(ip, g.pos) ELSE ip
          /\ interpolator_ori = IF g.set THEN WithGoal(io, Zeros(3)) ELSE io
    /\ relative_ori = Zeros(3)
    /\ ori_interpolate_started = FALSE
    /\ goal_set = FALSE
    /\ torques = None
    /\ returned = None
    /\ outcome = "none"
    /\ locals = NoLocals

----------------------------------------------------------------------------
(* The operations *)

\* The rotation a rotation vector of set_goal's delta stands for.
RotationOf(v) == IF v = <<0, 0, 1>> THEN RotZ90 ELSE Identity(3)

\* set_goal(delta, set_pos, set_ori) with the readings m: lines 83-86 delegate
\* to the base controller, which turns the delta or the absolute pose into
\* the goal, hands the goals to the attached interpolators and records the
\* orientation reference (the orientation read when the goal is set).
set_goal(m, delta, set_pos, set_ori) ==
    /\ m.ee_ori_mat # None
    /\ model' = m
    /\ LET gpos == IF set_pos # None THEN set_pos
                   ELSE VAdd(m.ee_pos, Slice(delta, 0, 3))
           gori == IF set_ori # None THEN set_ori
                   ELSE MatMul(RotationOf(Slice(delta, 3, 6)), m.ee_ori_mat)
       IN  /\ goal_pos' = gpos
           /\ goal_ori' = gori
           /\ interpolator_pos' = WithGoal(interpolator_pos, gpos)
           /\ IF interpolator_ori.attached
              THEN /\ ori_ref' = m.ee_ori_mat
                   /\ relative_ori' = Zeros(3)
                   /\ ori_interpolate_started' = FALSE
                   /\ interpolator_ori' =
                         WithGoal(interpolator_ori, orientation_error(gori, m.ee_ori_mat))
              ELSE UNCHANGED <<ori_ref, relative_ori, ori_interpolate_started, interpolator_ori>>
    /\ goal_set' = TRUE
    /\ locals' = NoLocals
    /\ UNCHANGED <<uncoupling, posture_gain, torques, returned, outcome>>

\* Lines 88-155: the effect of a cycle with readings m and locals c on the
\* controller.
Effect(m, c) ==
    /\ interpolator_pos' = Advance(interpolator_pos)
    /\ interpolator_ori' =
          IF c.failed # "orientation_error" THEN Advance(interpolator_ori)
          ELSE interpolator_ori
    /\ relative_ori' =
          IF c.failed # "orientation_error"
          THEN RelativeOriAfter(interpolator_ori, relative_ori, m.ee_ori_mat, ori_ref)
          ELSE relative_ori
    /\ ori_interpolate_started' =
          IF c.failed # "orientation_error"
          THEN StartedAfter(interpolator_ori, ori_interpolate_started)
          ELSE ori_interpolate_started
    /\ torques' =
          IF c.failed = "none" THEN FinalTorques(c.task_torques, c.posture_torques)
          ELSE IF c.failed = "nullspace_torques" THEN c.task_torques
          ELSE torques
    /\ returned' = IF c.failed = "none" THEN torques' ELSE None
    /\ outcome' = IF c.failed = "none" THEN "ok" ELSE "error"
    /\ locals' = c

\* run_controller() with the readings m: lines 88-155.
run_controller(m, pos_results, ori_results) ==
    /\ interpolator_pos.step < MaxSteps
    /\ interpolator_ori.step < MaxSteps
    /\ model' = m
    /\ Effect(m, Cycle(m, interpolator_pos, interpolator_ori, pos_results, ori_results))
    /\ UNCHANGED <<uncoupling, posture_gain, goal_pos, goal_ori, ori_ref, goal_set>>

SetGoal ==
    \E m \in Readings, args \in GoalArguments : set_goal(m, args[1], args[2], args[3])

RunController ==
    \E m \in Readings,
       pos_results \in InterpolatorResults(interpolator_pos),
       ori_results \in InterpolatorResults(interpolator_ori) :
          run_controller(m, pos_results, ori_results)

\* A cycle has just run (set_goal discards the locals).
JustRan == locals # NoLocals

Next == SetGoal \/ RunController

Spec == Init /\ [][Next]_vars

----------------------------------------------------------------------------
(* Properties *)

\* The last operation was a cycle that returned.
Completed == JustRan /\ locals.failed = "none"

\* C1: a run_controller call on a controller on which set_goal was never
\* called ends in an error and returns no torque.
C1_UnsetGoalIsError ==
    (JustRan /\ ~goal_set) => (outcome = "error" /\ returned = None)

\* C2: a cycle has no partial result: it returns the full torque, which is
\* then the cached one, or it fails, returns nothing and leaves the cached
\* torque as it was.
C2_NoPartialResult ==
    [][JustRan' =>
          \/ locals'.failed = "none" /\ returned' # None /\ torques' = returned'
          \/ locals'.failed # "none" /\ returned' = None /\ torques' = torques]_vars

\* C3 as stated: a cycle leaves every field of the goal state unchanged:
\* goal position, goal orientation, orientation reference, relative_ori and
\* the interpolation-started flag.
C3_GoalStateUnchanged ==
    [][JustRan' =>
          /\ goal_pos' = goal_pos
          /\ goal_ori' = goal_ori
          /\ ori_ref' = ori_ref
          /\ relative_ori' = relative_ori
          /\ ori_interpolate_started' = ori_interpolate_started]_vars

\* C3 amended: a cycle leaves goal position, goal orientation and orientation
\* reference unchanged; with no orientation interpolator attached it leaves
\* relative_ori and the interpolation-started flag unchanged as well.
C3_GoalUnchanged ==
    [][JustRan' =>
          /\ goal_pos' = goal_pos
          /\ goal_ori' = goal_ori
          /\ ori_ref' = ori_ref
          /\ ~interpolator_ori.attached =>
                /\ relative_ori' = relative_ori
                /\ ori_interpolate_started' = ori_interpolate_started]_vars

C3_Witness ==
    /\ JustRan
    /\ goal_set
    /\ interpolator_ori.attached
    /\ relative_ori # <<0, 0, 0>>
    /\ goal_pos # None

\* C4: with an orientation interpolator attached, of any order, a completed
\* cycle leaves the interpolation-started flag true.
C4_StartedAfterCycle ==
    (Completed /\ interpolator_ori.attached) => ori_interpolate_started

\* The torque run_controller returns on this state with no interpolators.
DirectTorque ==
    LET c == Cycle(model, NoInterpolator, NoInterpolator, None, None)
    IN  IF c.failed = "none" THEN FinalTorques(c.task_torques, c.posture_torques) ELSE None

\* C5: with interpolators that return their static goal with zero velocity
\* and acceleration, a cycle returns the torque of a cycle without
\* interpolators.
C5_PassThroughEquivalence ==
    (/\ Completed
     /\ interpolator_pos.attached
     /\ interpolator_ori.attached
     /\ interpolator_pos.goal # None
     /\ interpolator_ori.goal # None
     /\ locals.pos_results = StaticResult(interpolator_pos)
     /\ locals.ori_results = StaticResult(interpolator_ori))
    => returned = DirectTorque

\* The case of C6: no interpolators, no posture gain, the current pose is the
\* goal pose and the end effector is at rest.
AtGoalAtRest ==
    /\ ~interpolator_pos.attached
    /\ ~interpolator_ori.attached
    /\ posture_gain = 0
    /\ goal_pos = model.ee_pos
    /\ goal_ori = model.ee_ori_mat
    /\ goal_ori # None
    /\ model.ee_pos_vel = <<0, 0, 0>>
    /\ model.ee_ori_vel = <<0, 0, 0>>

\* C6: at the goal pose, at rest, with no interpolator and posture gain 0, a
\* cycle returns exactly the torque compensation, in both coupling modes.
C6_FeedThrough ==
    (Completed /\ AtGoalAtRest) => returned = model.torque_compensation

C6_Witness ==
    /\ Completed
    /\ AtGoalAtRest
    /\ ~uncoupling
    /\ goal_set
    /\ model.torque_compensation # <<0, 0, 0, 0, 0, 0, 0>>

\* C7: the desired position is the goal position without a position
\* interpolator, components 0-2 of the result with one of order 4 (3-5 the
\* velocity, 6 onward the acceleration), the whole result with one of another
\* order; velocity and acceleration are zero unless the order is 4.
C7_DesiredPosition ==
    JustRan =>
        LET r == locals.pos_results
        IN  /\ ~interpolator_pos.attached =>
                  /\ locals.desired_pos = goal_pos
                  /\ locals.desired_vel_pos = <<0, 0, 0>>
                  /\ locals.desired_acc_pos = <<0, 0, 0>>
            /\ (interpolator_pos.attached /\ interpolator_pos.order = 4) =>
                  /\ locals.desired_pos = <<r[1], r[2], r[3]>>
                  /\ locals.desired_vel_pos = <<r[4], r[5], r[6]>>
                  /\ Len(locals.desired_acc_pos) = Len(r) - 6
                  /\ \A i \in 1..(Len(r) - 6) : locals.desired_acc_pos[i] = r[6 + i]
            /\ (interpolator_pos.attached /\ interpolator_pos.order # 4) =>
                  /\ locals.desired_pos = r
                  /\ locals.desired_vel_pos = <<0, 0, 0>>
                  /\ locals.desired_acc_pos = <<0, 0, 0>>

C7_Witness ==
    /\ JustRan
    /\ interpolator_pos.attached
    /\ interpolator_pos.order = 4
    /\ locals.desired_vel_pos = <<1, 0, 2>>
    /\ locals.desired_acc_pos = <<0, 1, 1>>

\* Row i of the 3 x 3 matrix L applied to the 3-vector v.
Row3(L, i, v) == L[i][1] * v[1] + L[i][2] * v[2] + L[i][3] * v[3]

\* The wrench of decoupled mode: lambda_pos on the force, lambda_ori on the torque.
IsDecoupledWrench(w, ops, f, t) ==
    /\ Len(w) = 6
    /\ \A i \in 1..3 : w[i] = Row3(ops.lambda_pos, i, f)
    /\ \A i \in 1..3 : w[3 + i] = Row3(ops.lambda_ori, i, t)

\* The wrench of coupled mode: lambda_full on (force, torque).
IsCoupledWrench(w, ops, f, t) ==
    /\ Len(w) = 6
    /\ \A i \in 1..6 :
          w[i] = ops.lambda_full[i][1] * f[1] + ops.lambda_full[i][2] * f[2]
                 + ops.lambda_full[i][3] * f[3] + ops.lambda_full[i][4] * t[1]
                 + ops.lambda_full[i][5] * t[2] + ops.lambda_full[i][6] * t[3]

\* lambda_full is block diagonal with blocks lambda_pos and lambda_ori.
BlockDiagonal(ops) ==
    \A i \in 1..3, j \in 1..3 :
        /\ ops.lambda_full[i][j] = ops.lambda_pos[i][j]
        /\ ops.lambda_full[3 + i][3 + j] = ops.lambda_ori[i][j]
        /\ ops.lambda_full[i][3 + j] = 0
        /\ ops.lambda_full[3 + i][j] = 0

\* C8: the wrench is that of decoupled mode when uncoupling is set and that
\* of coupled mode otherwise; with a block-diagonal full inertia it is both.
C8_Wrench ==
    (JustRan /\ locals.decoupled_wrench # None) =>
        LET ops == opspace_matrices(model.mass_matrix, model.J_full, model.J_pos, model.J_ori)
            w == locals.decoupled_wrench
            f == locals.desired_force
            t == locals.desired_torque
        IN  /\ uncoupling => IsDecoupledWrench(w, ops, f, t)
            /\ ~uncoupling => IsCoupledWrench(w, ops, f, t)
            /\ BlockDiagonal(ops) =>
                  IsDecoupledWrench(w, ops, f, t) /\ IsCoupledWrench(w, ops, f, t)

C8_Witness ==
    /\ Completed
    /\ ~uncoupling
    /\ ~BlockDiagonal(opspace_matrices(model.mass_matrix, model.J_full,
                                       model.J_pos, model.J_ori))
    /\ locals.desired_force # <<0, 0, 0>>
    /\ locals.desired_torque # <<0, 0, 0>>

\* C9: after a completed cycle the cached torque is the returned vector,
\* J_full^T wrench + compensation + null-space posture torque, and it stays
\* the last returned vector until the next cycle.
C9_CachedTorque ==
    /\ outcome = "ok" => (returned # None /\ torques = returned)
    /\ Completed =>
          LET ops == opspace_matrices(model.mass_matrix, model.J_full,
                                      model.J_pos, model.J_ori)
              posture == nullspace_torques(model.mass_matrix, ops.nullspace_matrix,
                                           goal_posture, model.joint_pos,
                                           model.joint_vel, posture_gain)
              w == locals.decoupled_wrench
          IN  /\ Len(returned) = 7
              /\ \A j \in 1..7 :
                    returned[j] =
                        model.J_full[1][j] * w[1] + model.J_full[2][j] * w[2]
                        + model.J_full[3][j] * w[3] + model.J_full[4][j] * w[4]
                        + model.J_full[5][j] * w[5] + model.J_full[6][j] * w[6]
                        + model.torque_compensation[j] + posture[j]

C9_Witness ==
    /\ ~JustRan
    /\ outcome = "ok"
    /\ goal_set
    /\ posture_gain > 0
    /\ torques # model.torque_compensation

\* C10 as stated: every cycle calls get_interpolated_goal exactly once on
\* each attached interpolator and never on an absent one.
C10_OncePerCycle ==
    [][JustRan' =>
          /\ interpolator_pos'.step =
                interpolator_pos.step + (IF interpolator_pos.attached THEN 1 ELSE 0)
          /\ interpolator_ori'.step =
                interpolator_ori.step + (IF interpolator_ori.attached THEN 1 ELSE 0)]_vars

\* C10 amended: every cycle calls get_interpolated_goal exactly once on an
\* attached position interpolator; it calls it exactly once on an attached
\* orientation interpolator unless orientation_error raises first (line 108),
\* and then not at all; a cycle that fails in opspace_matrices or
\* nullspace_torques has made both calls; an absent interpolator is not
\* called.
C10_OncePerCycleReached ==
    [][JustRan' =>
          /\ interpolator_pos'.step =
                interpolator_pos.step + (IF interpolator_pos.attached THEN 1 ELSE 0)
          /\ interpolator_ori'.step =
                interpolator_ori.step
                + (IF interpolator_ori.attached /\ locals'.failed # "orientation_error"
                   THEN 1 ELSE 0)
          /\ locals'.failed = "orientation_error" =>
                OrientationErrorRaises(model'.ee_ori_mat, ori_ref)
                \/ ~interpolator_ori.attached]_vars

C10_Witness ==
    /\ JustRan
    /\ locals.failed = "nullspace_torques"
    /\ interpolator_pos.attached
    /\ interpolator_ori.attached
    /\ interpolator_pos.step = 1
    /\ interpolator_ori.step = 1

====
